---- MODULE Spec2Model ----
(***************************************************************************)
(* A model of github.com/tessayKZ/matrixdll, file matrixDLL.go.            *)
(*                                                                         *)
(* The file holds three parts:                                             *)
(*   lines   1-166  MatrixClient: signaling over HTTP under a mutex;       *)
(*   lines 168-426  Client over mautrix (variant "mautrix");               *)
(*   lines 428-655  Client over plain HTTP (variant "http").               *)
(* The two Client definitions have the same operations and differ in       *)
(* error handling and in where StartCall sets currentCallID; the variable  *)
(* variant says which of the two a behaviour runs.                         *)
(*                                                                         *)
(* The media transport (pion PeerConnection), the codec (gopus), the       *)
(* homeserver and the clock are the environment: their callbacks and       *)
(* results are nondeterministic inputs.                                    *)
(***************************************************************************)
EXTENDS Integers, Sequences, FiniteSets, TLC

(***************************************************************************)
(* Bounds of the model.                                                    *)
(***************************************************************************)
MaxCalls == 2
MaxClock == 1
MaxCands == 2
MaxEvents == 4
MaxFrames == 3
MaxFaults == 1
MaxBurst == 52
BurstCalls == 1
BurstEvents == 2
NumThreads == 2
MaxOps == 3
MaxSyncs == 3
MaxTracks == 1
MaxPkts == 4
MaxSeq == 4
MaxRxBurst == 52
MaxPcmLen == 3
SendCalls == 1
SendEvents == 4
SendFrames == 2
RetryCalls == 1
RetryEvents == 3
RetryFrames == 1
RetryPkts == 1
RetryTracks == 1

(***************************************************************************)
(* Program constants.                                                      *)
(***************************************************************************)
ChanCap == 50
FrameDurationMs == 20
InviteLifetime == 60000
MxInviteLifetime == 120000
syncRetryGap == 1           \* time.Second, in seconds
SbDepth == 10               \* samplebuilder.New(10, ...)

Variants == {"mautrix", "http"}

VARIABLES
    variant,        \* which Client definition runs
    now,            \* time.Now().Unix(), in seconds
    faults,         \* failures the environment has injected so far
    uuidNext,       \* number of uuid.NewString() results handed out
    \* ---- Client: call session
    scPc,           \* the application thread's place in StartCall
    callsStarted,   \* StartCall invocations so far
    scResult,       \* what the last finished StartCall returned
    currentCallID,  \* Client.currentCallID
    idOwner,        \* the StartCall invocation that assigned currentCallID, 0 for none
    myPartyID,      \* Client.myPartyID
    pcCalls,        \* calls on c.pc that succeeded, in order
    handler,        \* OnConnectionStateChange handler: 0 logs, k is StartCall k's closure
    syncLoops,      \* the running signaling receive loops
    gatherState,    \* ICE gathering state of c.pc
    candsFired,     \* local candidates reported so far
    off,            \* StartCall's local offer (its SDP), "" when there is none
    outbox,         \* signaling messages the homeserver accepted, in order
    \* ---- Client: send pipeline
    connState,      \* PeerConnectionState last reported
    nEvents,        \* connection state changes reported so far
    dataCh,         \* Client.dataCh, the buffered channel's content
    offered,        \* SendAudio calls so far
    dropped,        \* frames SendAudio discarded
    workers,        \* the send-worker goroutines
    encLog,         \* frames passed to enc.Encode, in order
    written,        \* samples written to the outgoing track, in order
    \* ---- MatrixClient
    mu,             \* MatrixClient.mu: the thread holding it, 0 when free
    CurrentCallID,  \* MatrixClient.CurrentCallID
    MyPartyID,      \* MatrixClient.MyPartyID
    thr,            \* per thread: the operation in progress and its place
    opsStarted,     \* MatrixClient operations invoked so far
    mxOutbox,       \* messages the homeserver accepted from MatrixClient
    \* ---- Client: receive pipeline
    tracks,         \* OnTrack events so far
    rxWorkers,      \* the receive-worker goroutines, one per remote audio track
    decodeCh,       \* Client.decodeCh, the buffered channel's content
    arrivals,       \* sequence numbers of the packets ReadRTP returned, in order
    decLog,         \* samples passed to dec.Decode, in order
    rxDropped,      \* decoded frames discarded on a full decodeCh
    received,       \* what ReceiveAudio returned, in order
    \* ---- the PCM conversions of SendAudio and ReceiveAudio
    pcmIn,          \* the conversion's input: bytes or samples
    pcmMid,         \* the result of the first conversion
    pcmOut,         \* the result of converting pcmMid back
    pcmPc           \* how far the conversion has come

callVars == <<scPc, callsStarted, scResult, currentCallID, idOwner, myPartyID, pcCalls,
              handler, syncLoops, gatherState, candsFired, off, outbox>>
audioVars == <<connState, nEvents, dataCh, offered, dropped, workers, encLog, written>>
mxVars == <<mu, CurrentCallID, MyPartyID, thr, opsStarted, mxOutbox>>
recvVars == <<tracks, rxWorkers, decodeCh, arrivals, decLog, rxDropped, received>>
pcmVars == <<pcmIn, pcmMid, pcmOut, pcmPc>>
vars == <<variant, now, faults, uuidNext, callVars, audioVars, mxVars, recvVars, pcmVars>>

Threads == 1 .. NumThreads

(***************************************************************************)
(* Helpers.                                                                *)
(***************************************************************************)
\* uuid.NewString(): the n-th identifier handed out; distinct n give distinct strings.
Uuid(n) == "uuid-" \o ToString(n)

\* fmt.Sprintf("call-%d", time.Now().Unix())
CallIdAt(t) == "call-" \o ToString(t)

\* A call that may fail succeeds or, while the fault budget lasts, fails.
Outcomes == IF faults < MaxFaults THEN {TRUE, FALSE} ELSE {TRUE}

Charge(ok) == IF ok THEN faults ELSE faults + 1

\* int16(x): the low 16 bits of x as a signed value.
ToInt16(x) == LET m == x % 65536 IN IF m >= 32768 THEN m - 65536 ELSE m

\* A conversion that keeps the 16 bits as an unsigned value.
BytesToSamplesUnsigned(data) ==
    [i \in 1 .. (Len(data) \div 2) |-> data[2*i - 1] + 256 * data[2*i]]

\* samples[i] = int16(data[2*i]) | int16(data[2*i+1])<<8, for i < len(data)/2
BytesToSamples(data) ==
    [i \in 1 .. (Len(data) \div 2) |-> ToInt16(data[2*i - 1] + 256 * data[2*i])]

\* The raw audio the application offers.
AudioInputs == { <<0, 0>>, <<255, 255, 7>> }
SilentFrame == <<0, 0>>

Count(seq, x) == Cardinality({i \in DOMAIN seq : seq[i] = x})

(***************************************************************************)
(* NewClient and NewMatrixClient have returned without error.              *)
(***************************************************************************)
NoPcmInput == [kind |-> "none", val |-> <<>>]

InitFrom(injected, pcmInputs) ==
    /\ variant \in Variants
    /\ now = 0
    /\ faults = injected
    /\ uuidNext = 2
    /\ scPc = "idle"
    /\ callsStarted = 0
    /\ scResult = "none"
    /\ currentCallID = ""
    /\ idOwner = 0
    /\ myPartyID = Uuid(0)
    /\ pcCalls = <<>>
    /\ handler = 0
    /\ syncLoops = <<>>
    /\ gatherState = "new"
    /\ candsFired = 0
    /\ off = ""
    /\ outbox = <<>>
    /\ connState = "new"
    /\ nEvents = 0
    /\ dataCh = <<>>
    /\ offered = 0
    /\ dropped = 0
    /\ workers = <<>>
    /\ encLog = <<>>
    /\ written = <<>>
    /\ mu = 0
    /\ CurrentCallID = ""
    /\ MyPartyID = Uuid(1)
    /\ thr = [t \in Threads |-> [op |-> "none", pc |-> "idle", arg |-> "",
                                 msg |-> <<>>, ret |-> ""]]
    /\ opsStarted = 0
    /\ mxOutbox = <<>>
    /\ tracks = 0
    /\ rxWorkers = <<>>
    /\ decodeCh = <<>>
    /\ arrivals = <<>>
    /\ decLog = <<>>
    /\ rxDropped = 0
    /\ received = <<>>
    /\ pcmIn \in pcmInputs
    /\ pcmMid = <<>>
    /\ pcmOut = <<>>
    /\ pcmPc = "start"

InitWith(injected) == InitFrom(injected, {NoPcmInput})

Init == InitWith(0)

\* The same state, with an environment that injects no failure.
InitNoFaults == InitWith(MaxFaults)

(***************************************************************************)
(* Client.StartCall.  The application thread runs it in two steps: up to   *)
(* the wait on webrtc.GatheringCompletePromise, and from there to return.  *)
(***************************************************************************)
\* The signaling messages of Client, as the JSON payloads the code builds.
\* txn is the transaction id of the request ("" where mautrix makes its own);
\* attempt is the number of the StartCall invocation the send belongs to.
InviteMsg(callID, txn) ==
    [type |-> "m.call.invite", call_id |-> callID, party_id |-> myPartyID,
     lifetime |-> InviteLifetime, sdp |-> off, version |-> "1",
     txn |-> txn, attempt |-> callsStarted]

\* A Candidates message that batches every candidate reported so far.
CandidatesMsgBatched(txn) ==
    [type |-> "m.call.candidates", call_id |-> currentCallID, party_id |-> myPartyID,
     version |-> "1", candidates |-> [i \in 1 .. candsFired + 1 |-> i],
     txn |-> txn, attempt |-> callsStarted]

CandidatesMsg(txn) ==
    [type |-> "m.call.candidates", call_id |-> currentCallID, party_id |-> myPartyID,
     version |-> "1", candidates |-> <<candsFired + 1>>,
     txn |-> txn, attempt |-> callsStarted]

\* The call id StartCall assigns before the offer (mautrix variant, line 364).
CallIdBeforeOffer == IF variant = "mautrix" THEN CallIdAt(now) ELSE currentCallID

\* The call id StartCall assigns after gathering (http variant, line 623).
CallIdAfterGathering == IF variant = "http" THEN CallIdAt(now) ELSE currentCallID

\* The handler StartCall registers: the closure of this invocation's enc and track.
RegisteredHandler == callsStarted + 1

\* go func() { for { Sync(); ... } }(): only the mautrix variant starts one.
SyncLoopsAfterStart ==
    IF variant = "mautrix"
    THEN Append(syncLoops, [by |-> callsStarted + 1, pc |-> "sync", calls |-> 1,
                            fails |-> 0, failedAt |-> 0])
    ELSE syncLoops

StartCallEnter(maxCalls) ==
    /\ scPc = "idle"
    /\ callsStarted < maxCalls
    /\ callsStarted' = callsStarted + 1
    /\ \E setupOk \in Outcomes, offerOk \in Outcomes :
        /\ (~setupOk => offerOk)
        /\ faults' = IF setupOk /\ offerOk THEN faults ELSE faults + 1
        /\ IF variant = "mautrix" /\ ~setupOk
           THEN \* gopus.NewEncoder, NewTrackLocalStaticSample or AddTrack failed
                /\ scPc' = "idle"
                /\ scResult' = "error"
                /\ UNCHANGED <<currentCallID, idOwner, pcCalls, handler,
                               syncLoops, gatherState, off>>
           ELSE /\ handler' = RegisteredHandler
                /\ syncLoops' = SyncLoopsAfterStart
                /\ currentCallID' = CallIdBeforeOffer
                /\ idOwner' = IF variant = "mautrix" THEN callsStarted + 1 ELSE idOwner
                /\ IF offerOk
                   THEN /\ pcCalls' = pcCalls
                                \o (IF setupOk THEN <<"AddTrack">> ELSE <<>>)
                                \o <<"CreateOffer", "SetLocalDescription">>
                        \* gathering starts with the first local description only
                        /\ gatherState' = IF gatherState = "new" THEN "gathering"
                                          ELSE gatherState
                        /\ off' = "sdp-" \o ToString(callsStarted + 1)
                        /\ scPc' = "gather"
                        /\ scResult' = scResult
                   ELSE /\ pcCalls' = pcCalls
                                \o (IF setupOk THEN <<"AddTrack">> ELSE <<>>)
                        /\ gatherState' = gatherState
                        /\ off' = ""
                        /\ IF variant = "mautrix"
                           THEN \* BuildOfferSDP error: StartCall returns it
                                scPc' = "idle" /\ scResult' = "error"
                           ELSE \* errors dropped: StartCall goes on to the wait
                                scPc' = "gather" /\ scResult' = scResult
    /\ UNCHANGED <<pcmVars, variant, now, uuidNext, myPartyID, candsFired, outbox,
                   audioVars, mxVars, recvVars>>

\* <-webrtc.GatheringCompletePromise(c.pc) returns; the Invite is built and sent.
StartCallFinish ==
    /\ scPc = "gather"
    /\ gatherState = "complete"
    /\ currentCallID' = CallIdAfterGathering
    /\ idOwner' = IF variant = "http" THEN callsStarted ELSE idOwner
    /\ uuidNext' = IF variant = "http" THEN uuidNext + 1 ELSE uuidNext
    /\ \E ok \in Outcomes :
        /\ faults' = Charge(ok)
        /\ outbox' = IF ok
                     THEN Append(outbox, InviteMsg(CallIdAfterGathering,
                                                   IF variant = "http"
                                                   THEN Uuid(uuidNext) ELSE ""))
                     ELSE outbox
        /\ scResult' = IF ok THEN "ok" ELSE "error"
    /\ scPc' = "idle"
    /\ UNCHANGED <<pcmVars, variant, now, callsStarted, myPartyID, pcCalls, handler,
                   syncLoops, gatherState, candsFired, off, audioVars, mxVars, recvVars>>

(***************************************************************************)
(* pc.OnICECandidate: the transport reports a local candidate, or nil when *)
(* gathering is over.                                                      *)
(***************************************************************************)
OnICECandidate ==
    /\ gatherState = "gathering"
    /\ candsFired < MaxCands
    /\ candsFired' = candsFired + 1
    /\ uuidNext' = IF variant = "http" THEN uuidNext + 1 ELSE uuidNext
    /\ \E ok \in Outcomes :
        /\ faults' = Charge(ok)
        /\ outbox' = IF ok
                     THEN Append(outbox, CandidatesMsg(IF variant = "http"
                                                       THEN Uuid(uuidNext) ELSE ""))
                     ELSE outbox
    /\ UNCHANGED <<pcmVars, variant, now, scPc, callsStarted, scResult, currentCallID,
                   idOwner, myPartyID, pcCalls, handler, syncLoops, gatherState, off,
                   audioVars, mxVars, recvVars>>

OnICECandidateNil ==
    /\ gatherState = "gathering"
    /\ gatherState' = "complete"
    /\ UNCHANGED <<pcmVars, variant, now, faults, uuidNext, scPc, callsStarted, scResult,
                   currentCallID, idOwner, myPartyID, pcCalls, handler, syncLoops,
                   candsFired, off, outbox, audioVars, mxVars, recvVars>>

(***************************************************************************)
(* The signaling receive loop of the mautrix variant:                      *)
(*   for { if err := Sync(); err != nil { log; time.Sleep(syncRetryGap) } } *)
(* An entry of syncLoops is one such goroutine: pc says whether it is in   *)
(* Sync or in Sleep, calls counts its Sync calls, fails those that        *)
(* returned an error, failedAt is the time of the last such return.  Sync  *)
(* fails whenever the network does: these failures are not counted in      *)
(* faults.                                                                 *)
(***************************************************************************)
\* A loop whose Sleep returns at once.
SleepReturnsAtOnce(i) ==
    /\ i \in DOMAIN syncLoops
    /\ syncLoops[i].pc = "sleep"
    /\ syncLoops[i].calls < MaxSyncs
    /\ syncLoops' = [syncLoops EXCEPT ![i].pc = "sync", ![i].calls = @ + 1]
    /\ UNCHANGED <<pcmVars, variant, now, faults, uuidNext, scPc, callsStarted, scResult,
                   currentCallID, idOwner, myPartyID, pcCalls, handler, gatherState,
                   candsFired, off, outbox, audioVars, mxVars, recvVars>>

\* Sync returns: with an error the loop logs and sleeps; with nil it calls
\* Sync again.
SyncReturn(i) ==
    /\ i \in DOMAIN syncLoops
    /\ syncLoops[i].pc = "sync"
    /\ \E ok \in BOOLEAN :
        syncLoops' = IF ok
                     THEN IF syncLoops[i].calls < MaxSyncs
                          THEN [syncLoops EXCEPT ![i].calls = @ + 1]
                          ELSE syncLoops
                     ELSE [syncLoops EXCEPT ![i].pc = "sleep", ![i].fails = @ + 1,
                                            ![i].failedAt = now]
    /\ UNCHANGED <<pcmVars, variant, now, faults, uuidNext, scPc, callsStarted, scResult,
                   currentCallID, idOwner, myPartyID, pcCalls, handler, gatherState,
                   candsFired, off, outbox, audioVars, mxVars, recvVars>>

\* time.Sleep(syncRetryGap) returns, and the loop calls Sync again.
SleepReturn(i) ==
    /\ i \in DOMAIN syncLoops
    /\ syncLoops[i].pc = "sleep"
    /\ syncLoops[i].calls < MaxSyncs
    /\ now >= syncLoops[i].failedAt + syncRetryGap
    /\ syncLoops' = [syncLoops EXCEPT ![i].pc = "sync", ![i].calls = @ + 1]
    /\ UNCHANGED <<pcmVars, variant, now, faults, uuidNext, scPc, callsStarted, scResult,
                   currentCallID, idOwner, myPartyID, pcCalls, handler, gatherState,
                   candsFired, off, outbox, audioVars, mxVars, recvVars>>

\* The wall clock moves on by a second.
Tick ==
    /\ now < MaxClock
    /\ now' = now + 1
    /\ UNCHANGED <<pcmVars, variant, faults, uuidNext, callVars, audioVars, mxVars, recvVars>>

(***************************************************************************)
(* The send pipeline: SendAudio, the connection-state handler StartCall    *)
(* registers, and the worker goroutines it starts.                         *)
(***************************************************************************)
NoFrame == [seq |-> 0, pcm |-> <<>>]

\* A send that makes room on a full channel by discarding the oldest frame.
TrySendDropOldest(ch, frame) ==
    IF Len(ch) < ChanCap THEN Append(ch, frame) ELSE Append(Tail(ch), frame)

\* select { case c.dataCh <- samples: default: }
TrySend(ch, frame) == IF Len(ch) < ChanCap THEN Append(ch, frame) ELSE ch

SendAudio(data, maxFrames) ==
    /\ offered < maxFrames
    /\ offered' = offered + 1
    /\ LET frame == [seq |-> offered + 1, pcm |-> BytesToSamples(data)] IN
        /\ dataCh' = TrySend(dataCh, frame)
        /\ dropped' = IF dataCh' = dataCh THEN dropped + 1 ELSE dropped
    /\ UNCHANGED <<pcmVars, variant, now, faults, uuidNext, callVars, connState, nEvents,
                   workers, encLog, written, mxVars, recvVars>>

\* The states the transport may report after state cs.
NextConnStates(cs) ==
    CASE cs = "new"          -> {"connecting"}
      [] cs = "connecting"   -> {"connected", "failed"}
      [] cs = "connected"    -> {"disconnected", "failed", "closed"}
      [] cs = "disconnected" -> {"connected", "failed", "closed"}
      [] cs = "failed"       -> {"closed"}
      [] OTHER               -> {}

\* The transport reports its connection state to the handler in force. The
\* reports are inputs of the environment: they are taken to begin once a local
\* description is set, and to follow NextConnStates. (The code itself never
\* applies a remote description; what the transport then reports is its own
\* matter.)
\*
\* The handler in force runs: NewClient's only logs; StartCall's starts a
\* goroutine ranging over c.dataCh on every report of the connected state.
WorkersAfter(state) ==
    IF handler # 0 /\ state = "connected"
    THEN Append(workers, [closure |-> handler, pc |-> "range", frame |-> NoFrame,
                          pkt |-> "none"])
    ELSE workers

OnConnectionStateChange(state, maxEvents) ==
    /\ Count(pcCalls, "SetLocalDescription") > 0
    /\ nEvents < maxEvents
    /\ state \in NextConnStates(connState)
    /\ connState' = state
    /\ nEvents' = nEvents + 1
    /\ workers' = WorkersAfter(state)
    /\ UNCHANGED <<pcmVars, variant, now, faults, uuidNext, callVars, dataCh, offered,
                   dropped, encLog, written, mxVars, recvVars>>

\* for pcm := range c.dataCh: the worker takes the oldest frame.
WorkerReceive(w) ==
    /\ w \in DOMAIN workers
    /\ workers[w].pc = "range"
    /\ dataCh # <<>>
    /\ workers' = [workers EXCEPT ![w].pc = "encode", ![w].frame = Head(dataCh)]
    /\ dataCh' = Tail(dataCh)
    /\ UNCHANGED <<pcmVars, variant, now, faults, uuidNext, callVars, connState, nEvents,
                   offered, dropped, encLog, written, mxVars, recvVars>>

\* enc.Encode(pcm, frameSize, opusBufSize): on an error the mautrix variant
\* logs and continues with the next frame, the http variant drops the error
\* and goes on to write.
WorkerEncode(w) ==
    /\ w \in DOMAIN workers
    /\ workers[w].pc = "encode"
    /\ encLog' = Append(encLog, workers[w].frame.seq)
    /\ \E ok \in Outcomes :
        /\ faults' = Charge(ok)
        /\ workers' = IF ok
                      THEN [workers EXCEPT ![w].pc = "write", ![w].pkt = "opus"]
                      ELSE IF variant = "mautrix"
                      THEN [workers EXCEPT ![w].pc = "range", ![w].frame = NoFrame]
                      ELSE [workers EXCEPT ![w].pc = "write", ![w].pkt = "nil"]
    /\ UNCHANGED <<pcmVars, variant, now, uuidNext, callVars, connState, nEvents, dataCh,
                   offered, dropped, written, mxVars, recvVars>>

\* A worker that goes back to the channel without calling WriteSample.
WorkerWriteSkipped(w) ==
    /\ w \in DOMAIN workers
    /\ workers[w].pc = "write"
    /\ workers' = [workers EXCEPT ![w].pc = "range", ![w].frame = NoFrame,
                                  ![w].pkt = "none"]
    /\ UNCHANGED <<pcmVars, variant, now, faults, uuidNext, callVars, connState, nEvents,
                   dataCh, offered, dropped, encLog, written, mxVars, recvVars>>

\* sendTrack.WriteSample(media.Sample{Data: pkt, Duration: 20 * time.Millisecond})
WorkerWrite(w) ==
    /\ w \in DOMAIN workers
    /\ workers[w].pc = "write"
    /\ \E ok \in Outcomes :
        /\ faults' = Charge(ok)
        /\ written' = Append(written,
                             [seq |-> workers[w].frame.seq, data |-> workers[w].pkt,
                              duration |-> FrameDurationMs,
                              track |-> workers[w].closure, ok |-> ok])
    /\ workers' = [workers EXCEPT ![w].pc = "range", ![w].frame = NoFrame,
                                  ![w].pkt = "none"]
    /\ UNCHANGED <<pcmVars, variant, now, uuidNext, callVars, connState, nEvents, dataCh,
                   offered, dropped, encLog, mxVars, recvVars>>

(***************************************************************************)
(* The jitter reassembler (samplebuilder of the media library, created     *)
(* with depth 10).  It holds the packets pushed, keyed by sequence number, *)
(* and the next sequence number it expects; a pop releases the packet with *)
(* that number if it is held.  A packet older than the release point is    *)
(* discarded; when the gap before the held packets has lasted for the      *)
(* depth, the reassembler advances past it to the oldest held packet.      *)
(***************************************************************************)
SetMax(S) == CHOOSE x \in S : \A y \in S : y <= x
SetMin(S) == CHOOSE x \in S : \A y \in S : x <= y

NewBuilder == [buf |-> {}, next |-> 0]

\* A push that keeps a packet older than the release point: the release
\* point goes back to it.
SbPushKeepsOld(sb, p) ==
    [buf |-> sb.buf \cup {p},
     next |-> IF sb.next = 0 \/ p < sb.next THEN p ELSE sb.next]

SbPush(sb, p) ==
    IF sb.next # 0 /\ p < sb.next
    THEN sb
    ELSE LET buf == sb.buf \cup {p}
             next == IF sb.next = 0 THEN p ELSE sb.next
         IN  IF next \notin buf /\ SetMax(buf) - next >= SbDepth
             THEN [buf |-> buf, next |-> SetMin(buf)]
             ELSE [buf |-> buf, next |-> next]

SbPoppable(sb) == sb.next \in sb.buf

SbPop(sb) == [buf |-> sb.buf \ {sb.next}, next |-> sb.next + 1]

(***************************************************************************)
(* The receive pipeline: the OnTrack handler NewClient registers, the      *)
(* worker goroutine it starts per remote audio track, and ReceiveAudio.    *)
(***************************************************************************)
TrackKinds == {"audio", "video"}

\* The sequence numbers of the packets a remote track delivers: a window of
\* consecutive numbers and one far ahead of it.
RtpSeqs == (1 .. MaxSeq) \cup {MaxSeq + SbDepth}

\* The PCM the decoder returns for the sample with sequence number seq.
PcmOf(seq) == <<seq, 0 - seq>>

\* out[2*i] = byte(v); out[2*i+1] = byte(v >> 8)
SamplesToBytes(pcm) ==
    [i \in 1 .. 2 * Len(pcm) |->
        IF i % 2 = 1 THEN pcm[(i + 1) \div 2] % 256
        ELSE (pcm[i \div 2] \div 256) % 256]

\* A send to decodeCh that always finds room.
TryPushUnbounded(ch, frame) == Append(ch, frame)

\* select { case c.decodeCh <- pcm: default: }
TryPush(ch, frame) == IF Len(ch) < ChanCap THEN Append(ch, frame) ELSE ch

\* The transport reports a remote track; for an audio track the handler
\* starts a worker goroutine. A transport that has closed reports no track
\* and delivers no packet.
OnTrack(kind, maxTracks) ==
    /\ connState # "closed"
    /\ tracks < maxTracks
    /\ tracks' = tracks + 1
    /\ rxWorkers' = IF kind = "audio"
                    THEN Append(rxWorkers, [pc |-> "init", sb |-> NewBuilder, cur |-> 0])
                    ELSE rxWorkers
    /\ UNCHANGED <<pcmVars, variant, now, faults, uuidNext, callVars, audioVars, mxVars,
                   decodeCh, arrivals, decLog, rxDropped, received>>

\* samplebuilder.New and gopus.NewDecoder: on an error the mautrix variant
\* logs and returns. The http variant drops the error; a failed construction
\* is not among the inputs there.
RxInit(w) ==
    /\ w \in DOMAIN rxWorkers
    /\ rxWorkers[w].pc = "init"
    /\ \E ok \in (IF variant = "mautrix" THEN Outcomes ELSE {TRUE}) :
        /\ faults' = Charge(ok)
        /\ rxWorkers' = [rxWorkers EXCEPT ![w].pc = IF ok THEN "read" ELSE "exited"]
    /\ UNCHANGED <<pcmVars, variant, now, uuidNext, callVars, audioVars, mxVars,
                   tracks, decodeCh, arrivals, decLog, rxDropped, received>>

\* track.ReadRTP() returns the packet with sequence number p; sb.Push(pkt).
RxRead(w, p, maxPkts) ==
    /\ w \in DOMAIN rxWorkers
    /\ rxWorkers[w].pc = "read"
    /\ connState # "closed"
    /\ Len(arrivals) < maxPkts
    /\ arrivals' = Append(arrivals, [w |-> w, seq |-> p])
    /\ rxWorkers' = [rxWorkers EXCEPT ![w].pc = "pop",
                                      ![w].sb = SbPush(rxWorkers[w].sb, p)]
    /\ UNCHANGED <<pcmVars, variant, now, faults, uuidNext, callVars, audioVars, mxVars,
                   tracks, decodeCh, decLog, rxDropped, received>>

\* track.ReadRTP() returns an error (the stream has ended): the worker returns.
RxReadEnd(w) ==
    /\ w \in DOMAIN rxWorkers
    /\ rxWorkers[w].pc = "read"
    /\ rxWorkers' = [rxWorkers EXCEPT ![w].pc = "exited"]
    /\ UNCHANGED <<pcmVars, variant, now, faults, uuidNext, callVars, audioVars, mxVars,
                   tracks, decodeCh, arrivals, decLog, rxDropped, received>>

\* s := sb.Pop(): a sample, or nil, which ends the inner loop.
RxPop(w) ==
    /\ w \in DOMAIN rxWorkers
    /\ rxWorkers[w].pc = "pop"
    /\ rxWorkers' = IF SbPoppable(rxWorkers[w].sb)
                    THEN [rxWorkers EXCEPT ![w].pc = "decode",
                                           ![w].cur = rxWorkers[w].sb.next,
                                           ![w].sb = SbPop(rxWorkers[w].sb)]
                    ELSE [rxWorkers EXCEPT ![w].pc = "read"]
    /\ UNCHANGED <<pcmVars, variant, now, faults, uuidNext, callVars, audioVars, mxVars,
                   tracks, decodeCh, arrivals, decLog, rxDropped, received>>

\* dec.Decode(s.Data, frameSize, false) and the send to c.decodeCh. On a decode
\* error the mautrix variant logs and breaks out of the inner loop; the http
\* variant drops the error and sends the pcm it got.
RxDecode(w) ==
    /\ w \in DOMAIN rxWorkers
    /\ rxWorkers[w].pc = "decode"
    /\ \E ok \in Outcomes :
        /\ faults' = Charge(ok)
        /\ decLog' = Append(decLog, [w |-> w, seq |-> rxWorkers[w].cur, ok |-> ok])
        /\ LET frame == [w |-> w, seq |-> rxWorkers[w].cur, ok |-> ok,
                         pcm |-> IF ok THEN PcmOf(rxWorkers[w].cur) ELSE <<>>]
           IN  IF ~ok /\ variant = "mautrix"
               THEN /\ rxWorkers' = [rxWorkers EXCEPT ![w].pc = "read", ![w].cur = 0]
                    /\ UNCHANGED <<decodeCh, rxDropped>>
               ELSE /\ rxWorkers' = [rxWorkers EXCEPT ![w].pc = "pop", ![w].cur = 0]
                    /\ decodeCh' = TryPush(decodeCh, frame)
                    /\ rxDropped' = IF decodeCh' = decodeCh THEN rxDropped + 1
                                    ELSE rxDropped
    /\ UNCHANGED <<pcmVars, variant, now, uuidNext, callVars, audioVars, mxVars,
                   tracks, arrivals, received>>

\* pcm := <-c.decodeCh: ReceiveAudio waits for a frame and returns its bytes.
ReceiveAudio ==
    /\ decodeCh # <<>>
    /\ decodeCh' = Tail(decodeCh)
    /\ received' = Append(received, [w |-> Head(decodeCh).w, seq |-> Head(decodeCh).seq,
                                     ok |-> Head(decodeCh).ok,
                                     bytes |-> SamplesToBytes(Head(decodeCh).pcm)])
    /\ UNCHANGED <<pcmVars, variant, now, faults, uuidNext, callVars, audioVars, mxVars,
                   tracks, rxWorkers, arrivals, decLog, rxDropped>>

(***************************************************************************)
(* MatrixClient.  Each thread of the application runs one operation at a   *)
(* time: SendCallInvite, SendCallAnswer and SendCandidates take c.mu, run  *)
(* their body, post, and release c.mu on return (defer); GetCallID reads   *)
(* c.CurrentCallID without taking c.mu.                                    *)
(***************************************************************************)
SendOps == {"SendCallInvite", "SendCallAnswer", "SendCandidates"}

\* The callID arguments the application passes.
CallIdArgs == {"", "call-remote"}

Idle == [op |-> "none", pc |-> "idle", arg |-> "", msg |-> <<>>, ret |-> ""]

MxInvoke(t, op, arg) ==
    /\ thr[t].pc = "idle"
    /\ opsStarted < MaxOps
    /\ op = "SendCallInvite" \/ op = "GetCallID" => arg = ""
    /\ opsStarted' = opsStarted + 1
    /\ thr' = [thr EXCEPT ![t] = [op |-> op, arg |-> arg, msg |-> <<>>, ret |-> "",
                                  pc |-> IF op = "GetCallID" THEN "read" ELSE "lock"]]
    /\ UNCHANGED <<pcmVars, variant, now, faults, uuidNext, callVars, audioVars, recvVars,
                   mu, CurrentCallID, MyPartyID, mxOutbox>>

\* c.mu.Lock()
MxLock(t) ==
    /\ thr[t].pc = "lock"
    /\ mu = 0
    /\ mu' = t
    /\ thr' = [thr EXCEPT ![t].pc = "body"]
    /\ UNCHANGED <<pcmVars, variant, now, faults, uuidNext, callVars, audioVars, recvVars,
                   CurrentCallID, MyPartyID, opsStarted, mxOutbox>>

\* An assignment of callID to c.CurrentCallID that is not guarded by callID != "".
CallIdAfterUnguarded(op, arg) ==
    IF op = "SendCallInvite" THEN Uuid(uuidNext) ELSE arg

\* The value the operation leaves in c.CurrentCallID.
CallIdAfter(op, arg) ==
    IF op = "SendCallInvite" THEN Uuid(uuidNext)
    ELSE IF arg # "" THEN arg ELSE CurrentCallID

\* The number of uuid.NewString() calls of the operation's body.
UuidsUsed(op) == IF op = "SendCallInvite" THEN 2 ELSE 1

\* The payload and the transaction id of the request.
MxMsg(op, arg) ==
    LET base == [call_id |-> CallIdAfter(op, arg), party_id |-> MyPartyID,
                 version |-> "1", txn |-> Uuid(uuidNext + UuidsUsed(op) - 1)]
    IN  CASE op = "SendCallInvite" ->
               base @@ [type |-> "m.call.invite", lifetime |-> MxInviteLifetime]
          [] op = "SendCallAnswer" -> base @@ [type |-> "m.call.answer"]
          [] OTHER -> base @@ [type |-> "m.call.candidates"]

\* From the assignment of c.CurrentCallID to the call of postJSON.
MxBody(t) ==
    /\ thr[t].pc = "body"
    /\ CurrentCallID' = CallIdAfter(thr[t].op, thr[t].arg)
    /\ uuidNext' = uuidNext + UuidsUsed(thr[t].op)
    /\ thr' = [thr EXCEPT ![t].pc = "post", ![t].msg = MxMsg(thr[t].op, thr[t].arg)]
    /\ UNCHANGED <<pcmVars, variant, now, faults, callVars, audioVars, recvVars,
                   mu, MyPartyID, opsStarted, mxOutbox>>

\* postJSON returns; the operation returns and its deferred c.mu.Unlock() runs.
MxPostReturn(t) ==
    /\ thr[t].pc = "post"
    /\ \E ok \in Outcomes :
        /\ faults' = Charge(ok)
        /\ mxOutbox' = IF ok THEN Append(mxOutbox, thr[t].msg) ELSE mxOutbox
        /\ thr' = [thr EXCEPT ![t] = [Idle EXCEPT !.ret =
                       IF ~ok THEN "error"
                       ELSE IF thr[t].op = "SendCallInvite" THEN CurrentCallID
                       ELSE "nil"]]
    /\ mu' = 0
    /\ UNCHANGED <<pcmVars, variant, now, uuidNext, callVars, audioVars, recvVars,
                   CurrentCallID, MyPartyID, opsStarted>>

\* A writer of c.CurrentCallID is at its assignment while thread t reads.
Racing(t) ==
    \E u \in Threads \ {t} :
        /\ thr[u].pc = "body"
        /\ CallIdAfter(thr[u].op, thr[u].arg) # CurrentCallID

\* return c.CurrentCallID, with no lock: the value, or under a concurrent
\* write a torn string.
GetCallIDResults(t) == {CurrentCallID} \cup (IF Racing(t) THEN {"<torn>"} ELSE {})

MxGetCallID(t) ==
    /\ thr[t].pc = "read"
    /\ \E r \in GetCallIDResults(t) : thr' = [thr EXCEPT ![t] = [Idle EXCEPT !.ret = r]]
    /\ UNCHANGED <<pcmVars, variant, now, faults, uuidNext, callVars, audioVars, recvVars,
                   mu, CurrentCallID, MyPartyID, opsStarted, mxOutbox>>

ConnStates == {"connecting", "connected", "disconnected", "failed", "closed"}

(***************************************************************************)
(* The PCM conversions on their own: SendAudio's loop from bytes to        *)
(* samples and ReceiveAudio's loop from samples to bytes, applied to an    *)
(* input and then to each other's result.                                  *)
(***************************************************************************)
PcmByteVals == {0, 1, 127, 128, 255}
PcmSampleVals == {0 - 32768, 0 - 257, 0 - 1, 0, 1, 255, 256, 32767}

SeqsUpTo(S, n) == UNION {[1 .. k -> S] : k \in 0 .. n}

PcmInputs ==
    {[kind |-> "bytes", val |-> d] : d \in SeqsUpTo(PcmByteVals, MaxPcmLen)}
        \cup {[kind |-> "samples", val |-> p] : p \in SeqsUpTo(PcmSampleVals, MaxPcmLen)}

InitPcm == InitFrom(0, PcmInputs)

\* samples[i] = int16(data[2*i]) | int16(data[2*i+1])<<8, on the input bytes
\* or on the bytes ReceiveAudio's loop made.
ConvertSendAudio ==
    /\ \/ /\ pcmIn.kind = "bytes" /\ pcmPc = "start"
          /\ pcmMid' = BytesToSamples(pcmIn.val)
          /\ pcmPc' = "mid"
          /\ pcmOut' = pcmOut
       \/ /\ pcmIn.kind = "samples" /\ pcmPc = "mid"
          /\ pcmOut' = BytesToSamples(pcmMid)
          /\ pcmPc' = "done"
          /\ pcmMid' = pcmMid
    /\ UNCHANGED <<pcmIn, variant, now, faults, uuidNext, callVars, audioVars, mxVars,
                   recvVars>>

\* out[2*i] = byte(v); out[2*i+1] = byte(v >> 8), on the input samples or on
\* the samples SendAudio's loop made.
ConvertReceiveAudio ==
    /\ \/ /\ pcmIn.kind = "samples" /\ pcmPc = "start"
          /\ pcmMid' = SamplesToBytes(pcmIn.val)
          /\ pcmPc' = "mid"
          /\ pcmOut' = pcmOut
       \/ /\ pcmIn.kind = "bytes" /\ pcmPc = "mid"
          /\ pcmOut' = SamplesToBytes(pcmMid)
          /\ pcmPc' = "done"
          /\ pcmMid' = pcmMid
    /\ UNCHANGED <<pcmIn, variant, now, faults, uuidNext, callVars, audioVars, mxVars,
                   recvVars>>

(***************************************************************************)
(* Specifications.                                                         *)
(***************************************************************************)
\* The call session: StartCall, ICE gathering, the clock.
NextCall ==
    \/ StartCallEnter(MaxCalls)
    \/ StartCallFinish
    \/ OnICECandidate
    \/ OnICECandidateNil
    \/ Tick

SpecCall == Init /\ [][NextCall]_vars

\* The send pipeline under a call.
NextAudio ==
    \/ StartCallEnter(MaxCalls)
    \/ StartCallFinish
    \/ OnICECandidateNil
    \/ \E state \in ConnStates : OnConnectionStateChange(state, MaxEvents)
    \/ \E data \in AudioInputs : SendAudio(data, MaxFrames)
    \/ \E w \in 1 .. MaxEvents : WorkerReceive(w)
    \/ \E w \in 1 .. MaxEvents : WorkerEncode(w)
    \/ \E w \in 1 .. MaxEvents : WorkerWrite(w)

SpecAudio == Init /\ [][NextAudio]_vars

\* A burst of SendAudio calls that fills the send queue, with one call.
NextBurst ==
    \/ StartCallEnter(BurstCalls)
    \/ StartCallFinish
    \/ OnICECandidateNil
    \/ \E state \in ConnStates : OnConnectionStateChange(state, BurstEvents)
    \/ SendAudio(SilentFrame, MaxBurst)
    \/ \E w \in 1 .. BurstEvents : WorkerReceive(w)
    \/ \E w \in 1 .. BurstEvents : WorkerEncode(w)
    \/ \E w \in 1 .. BurstEvents : WorkerWrite(w)

SpecBurst == InitNoFaults /\ [][NextBurst]_vars

\* MatrixClient under concurrent callers.
NextMatrix ==
    \/ \E t \in Threads, op \in SendOps \cup {"GetCallID"}, arg \in CallIdArgs :
            MxInvoke(t, op, arg)
    \/ \E t \in Threads : MxLock(t)
    \/ \E t \in Threads : MxBody(t)
    \/ \E t \in Threads : MxPostReturn(t)
    \/ \E t \in Threads : MxGetCallID(t)

SpecMatrix == Init /\ [][NextMatrix]_vars

\* The receive pipeline: packets in any order, decode failures, the
\* application taking frames.
NextRecv ==
    \/ \E kind \in TrackKinds : OnTrack(kind, MaxTracks)
    \/ \E w \in 1 .. MaxTracks : RxInit(w)
    \/ \E w \in 1 .. MaxTracks, p \in RtpSeqs : RxRead(w, p, MaxPkts)
    \/ \E w \in 1 .. MaxTracks : RxReadEnd(w)
    \/ \E w \in 1 .. MaxTracks : RxPop(w)
    \/ \E w \in 1 .. MaxTracks : RxDecode(w)
    \/ ReceiveAudio

SpecRecv == Init /\ [][NextRecv]_vars

\* A burst of in-order packets on one remote track that fills the output
\* queue.
NextRxBurst ==
    \/ OnTrack("audio", 1)
    \/ RxInit(1)
    \/ RxRead(1, Len(arrivals) + 1, MaxRxBurst)
    \/ RxPop(1)
    \/ RxDecode(1)
    \/ ReceiveAudio

SpecRxBurst == InitNoFaults /\ [][NextRxBurst]_vars

\* One remote track with packets in any order. (Each receive worker has a
\* reassembler and a decoder of its own.)
NextJitter ==
    \/ OnTrack("audio", 1)
    \/ RxInit(1)
    \/ \E p \in RtpSeqs : RxRead(1, p, MaxPkts)
    \/ RxPop(1)
    \/ RxDecode(1)

SpecJitter == Init /\ [][NextJitter]_vars

\* One call and its send workers, with a few frames.
NextSend ==
    \/ StartCallEnter(SendCalls)
    \/ StartCallFinish
    \/ OnICECandidateNil
    \/ \E state \in ConnStates : OnConnectionStateChange(state, SendEvents)
    \/ SendAudio(SilentFrame, SendFrames)
    \/ \E w \in 1 .. SendEvents : WorkerReceive(w)
    \/ \E w \in 1 .. SendEvents : WorkerEncode(w)
    \/ \E w \in 1 .. SendEvents : WorkerWrite(w)

SpecSend == Init /\ [][NextSend]_vars

\* One call with everything that can fail: the signaling sends, the receive
\* loop, and both audio pipelines with one frame each way.
NextRetry ==
    \/ StartCallEnter(RetryCalls)
    \/ StartCallFinish
    \/ OnICECandidate
    \/ OnICECandidateNil
    \/ Tick
    \/ \E i \in 1 .. RetryCalls : SyncReturn(i)
    \/ \E i \in 1 .. RetryCalls : SleepReturn(i)
    \/ \E state \in ConnStates : OnConnectionStateChange(state, RetryEvents)
    \/ SendAudio(SilentFrame, RetryFrames)
    \/ \E w \in 1 .. RetryEvents : WorkerReceive(w)
    \/ \E w \in 1 .. RetryEvents : WorkerEncode(w)
    \/ \E w \in 1 .. RetryEvents : WorkerWrite(w)
    \/ OnTrack("audio", RetryTracks)
    \/ \E w \in 1 .. RetryTracks : RxInit(w)
    \/ \E w \in 1 .. RetryTracks : RxRead(w, Len(arrivals) + 1, RetryPkts)
    \/ \E w \in 1 .. RetryTracks : RxReadEnd(w)
    \/ \E w \in 1 .. RetryTracks : RxPop(w)
    \/ \E w \in 1 .. RetryTracks : RxDecode(w)
    \/ ReceiveAudio

SpecRetry == Init /\ [][NextRetry]_vars

\* The conversions applied to every input of PcmInputs.
NextPcm ==
    \/ ConvertSendAudio
    \/ ConvertReceiveAudio

SpecPcm == InitPcm /\ [][NextPcm]_vars

\* The same call, with the scheduling of goroutines stated: every worker
\* goroutine and every receive loop that can take a step eventually takes one.
\* A transport that has closed ends its tracks: a pending read of a remote
\* track then returns an error. The application and the clock are under no
\* obligation.
SpecEnd ==
    /\ Init
    /\ [][NextRetry]_vars
    /\ \A w \in 1 .. RetryEvents :
          WF_vars(WorkerReceive(w) \/ WorkerEncode(w) \/ WorkerWrite(w))
    /\ \A w \in 1 .. RetryTracks : WF_vars(RxInit(w) \/ RxPop(w) \/ RxDecode(w))
    /\ \A w \in 1 .. RetryTracks : WF_vars(connState = "closed" /\ RxReadEnd(w))
    /\ \A i \in 1 .. RetryCalls : WF_vars(SyncReturn(i) \/ SleepReturn(i))

(***************************************************************************)
(* Properties.                                                             *)
(***************************************************************************)
Invites == {i \in DOMAIN outbox : outbox[i].type = "m.call.invite"}
Candidates == {i \in DOMAIN outbox : outbox[i].type = "m.call.candidates"}

\* c.pc.SetRemoteDescription calls: the number of answers applied.
AnswersApplied == Count(pcCalls, "SetRemoteDescription")

\* Frames SendAudio has put into dataCh.
Accepted == offered - dropped

\* C1: the send queue never holds more than its capacity of 50 frames, and
\* a SendAudio call on a full queue leaves the queued frames as they are (in
\* content and order) and discards the frame it was given; on a queue with
\* room it appends the frame at the end.
C1_FullQueueDropsNewest ==
    /\ [](Len(dataCh) <= ChanCap)
    /\ [][offered' = offered + 1 =>
            /\ Len(dataCh) = ChanCap =>
                    dataCh' = dataCh /\ dropped' = dropped + 1
            /\ Len(dataCh) < ChanCap =>
                    /\ SubSeq(dataCh', 1, Len(dataCh)) = dataCh
                    /\ Len(dataCh') = Len(dataCh) + 1
                    /\ dataCh'[Len(dataCh')].seq = offered'
                    /\ dropped' = dropped]_vars

\* C1 witness: the queue is full, a frame offered to the full queue was
\* discarded, and the worker had taken frames out before.
C1_Witness ==
    /\ Len(dataCh) = ChanCap
    /\ dropped > 0
    /\ encLog # <<>>

\* C2: no audio frame is accepted into the send queue before the session
\* has sent exactly one Invite and applied exactly one Answer.
C2_NoAudioBeforeInviteAndAnswer ==
    Accepted > 0 => Cardinality(Invites) = 1 /\ AnswersApplied = 1

\* C3: at most one send worker ranges over dataCh at any time.
C3_AtMostOneSendWorker == Len(workers) <= 1

\* C4: frames reach the encoder and the outgoing track in the order
\* SendAudio accepted them.
C4_SendOrderPreserved ==
    /\ \A i, j \in DOMAIN encLog : i < j => encLog[i] < encLog[j]
    /\ \A i, j \in DOMAIN written : i < j => written[i].seq < written[j].seq

\* C5: a StartCall on a session that has already started a call has no
\* effect: no second Invite, no second outgoing track, the connection-state
\* handler stays the first call's, no second signaling receive loop.
C5_StartCallOnlyFromIdle ==
    /\ Cardinality(Invites) <= 1
    /\ Count(pcCalls, "AddTrack") <= 1
    /\ handler <= 1
    /\ Len(syncLoops) <= 1

\* C6: every Candidates message carries the call_id of the Invite of the
\* StartCall it belongs to: never an empty call_id, never another call's.
C6_CandidatesCarryInviteCallId ==
    \A c \in Candidates :
        /\ outbox[c].call_id # ""
        /\ \A i \in Invites :
              outbox[i].attempt = outbox[c].attempt
                  => outbox[i].call_id = outbox[c].call_id

\* C7: two distinct call attempts never produce the same call_id.
C7_CallIdUniquePerAttempt ==
    \A i, j \in Invites : i # j => outbox[i].call_id # outbox[j].call_id

\* C8: no thread holds MatrixClient.mu while its postJSON is outstanding.
C8_NoLockAcrossPost ==
    \A t \in Threads : thr[t].pc = "post" => mu # t

\* C9: no thread is at a write of the current call_id while another thread
\* is at a read or write of it without holding the lock.
C9_CallIdAccessUnderLock ==
    \A t, u \in Threads :
        (t # u /\ thr[t].pc = "body" /\ thr[u].pc \in {"body", "read"}) => mu = u

\* C10: after a StartCall that returned an error, no signaling receive loop
\* it started is running, the connection-state handler is not its closure
\* (a connected event starts no send worker for it), and the current
\* call_id is not the one it assigned.
C10_FailedStartCallEndsSession ==
    (scPc = "idle" /\ scResult = "error") =>
        /\ \A i \in DOMAIN syncLoops : syncLoops[i].by # callsStarted
        /\ handler # callsStarted
        /\ idOwner # callsStarted

\* C12: once the transport has reported failed or closed after a send worker
\* was started, no frame is taken from the send queue and none is written to
\* the outgoing track.
C12_NoSendAfterTransportEnd ==
    [][(connState \in {"failed", "closed"} /\ workers # <<>>) =>
            /\ Len(dataCh') >= Len(dataCh)
            /\ written' = written]_vars

\* C13: each frame whose encode succeeded is passed to WriteSample exactly
\* once, with a duration of 20 ms: a successful encode takes the worker to the
\* write of that frame, the write is never blocked, the worker leaves it only
\* by appending one sample of that frame, and no frame is written twice.
C13_OneWritePerEncodedFrame ==
    /\ [](\A i, j \in DOMAIN written : i # j => written[i].seq # written[j].seq)
    /\ [](\A i \in DOMAIN written :
              written[i].duration = 20 /\ written[i].seq \in 1 .. offered)
    /\ [](\A w \in DOMAIN workers : workers[w].pc = "write" => ENABLED WorkerWrite(w))
    /\ [][\A w \in DOMAIN workers :
            /\ (workers[w].pc = "encode" /\ workers'[w].pc # "encode"
                    /\ faults' = faults)
                 => /\ workers'[w].pc = "write"
                    /\ workers'[w].frame = workers[w].frame
                    /\ workers'[w].pkt = "opus"
            /\ (workers[w].pc = "write" /\ workers'[w].pc # "write")
                 => /\ Len(written') = Len(written) + 1
                    /\ SubSeq(written', 1, Len(written)) = written
                    /\ written'[Len(written')].seq = workers[w].frame.seq
                    /\ written'[Len(written')].data = workers[w].pkt
                    /\ written'[Len(written')].duration = 20]_vars

\* C13 witness: the Invite was sent, the transport connected, and two frames
\* SendAudio accepted were encoded and written.
C13_Witness ==
    /\ Cardinality(Invites) = 1
    /\ workers # <<>>
    /\ Len(written) >= 2
    /\ \A i \in DOMAIN written : written[i].data = "opus" /\ written[i].ok

\* C14: when encoding a dequeued frame fails, nothing is written to the
\* outgoing track for that frame, and the worker goes back to the send queue,
\* where it takes the next frame as soon as there is one.
C14_EncodeFailureSkipsFrame ==
    /\ [](\A i \in DOMAIN written : written[i].data = "opus")
    /\ [](\A w \in DOMAIN workers :
              (workers[w].pc = "range" /\ dataCh # <<>>) => ENABLED WorkerReceive(w))
    /\ [][\A w \in DOMAIN workers :
            (workers[w].pc = "encode" /\ workers'[w].pc # "encode"
                    /\ faults' = faults + 1)
                 => /\ workers'[w].pc = "range"
                    /\ written' = written]_vars

\* C17: a local candidate the transport reports leads to one send of a
\* Candidates message that holds exactly that candidate and the session's
\* party_id (the homeserver accepts it or the send fails); no candidate is in
\* two messages; the nil notification at the end of gathering sends nothing;
\* and a failed send leaves the handler ready for the next candidate.
C17_OneMessagePerCandidate ==
    /\ [](\A c \in Candidates :
              /\ Len(outbox[c].candidates) = 1
              /\ outbox[c].party_id = myPartyID
              /\ \A d \in Candidates : d # c => outbox[d].candidates # outbox[c].candidates)
    /\ []((gatherState = "gathering" /\ candsFired < MaxCands) => ENABLED OnICECandidate)
    /\ [][/\ candsFired' = candsFired + 1 =>
                \/ /\ faults' = faults + 1
                   /\ outbox' = outbox
                \/ /\ faults' = faults
                   /\ Len(outbox') = Len(outbox) + 1
                   /\ SubSeq(outbox', 1, Len(outbox)) = outbox
                   /\ outbox'[Len(outbox')].type = "m.call.candidates"
                   /\ outbox'[Len(outbox')].candidates = <<candsFired'>>
                   /\ outbox'[Len(outbox')].party_id = myPartyID
          /\ (gatherState = "gathering" /\ gatherState' = "complete") => outbox' = outbox
          /\ candsFired' = candsFired => Candidates' = Candidates]_vars

\* C17 witness: the send for the first candidate failed, the second
\* candidate's message was accepted, and gathering ended with the nil
\* notification.
C17_Witness ==
    /\ candsFired = 2
    /\ gatherState = "complete"
    /\ \E c \in Candidates : outbox[c].candidates = <<2>>
    /\ ~ \E c \in Candidates : outbox[c].candidates = <<1>>

\* C19: a MatrixClient SendCallAnswer or SendCandidates with an empty callID
\* leaves CurrentCallID as it is and sends a message with that call_id; with a
\* non-empty callID that value becomes CurrentCallID and the message's
\* call_id; SendCallInvite makes a fresh CurrentCallID; nothing else changes
\* CurrentCallID; the message posted is the one built; MyPartyID never changes.
C19_EmptyCallIdRetainsCurrent ==
    [][/\ MyPartyID' = MyPartyID
       /\ \A t \in Threads :
            (thr[t].pc = "body" /\ thr'[t].pc = "post") =>
                /\ thr'[t].msg.party_id = MyPartyID
                /\ thr'[t].msg.call_id = CurrentCallID'
                /\ (thr[t].op # "SendCallInvite" /\ thr[t].arg = "")
                        => CurrentCallID' = CurrentCallID
                /\ (thr[t].op # "SendCallInvite" /\ thr[t].arg # "")
                        => CurrentCallID' = thr[t].arg
                /\ thr[t].op = "SendCallInvite"
                        => /\ CurrentCallID' # CurrentCallID
                           /\ CurrentCallID' \notin CallIdArgs
                           /\ \A i \in DOMAIN mxOutbox :
                                  mxOutbox[i].call_id # CurrentCallID'
       /\ CurrentCallID' # CurrentCallID =>
            \E t \in Threads :
                /\ thr[t].pc = "body" /\ thr'[t].pc = "post"
                /\ thr[t].op = "SendCallInvite" \/ thr[t].arg # ""
       /\ mxOutbox' # mxOutbox =>
            \E t \in Threads :
                /\ thr[t].pc = "post"
                /\ mxOutbox' = Append(mxOutbox, thr[t].msg)]_vars

\* C19 witness: after an operation made "call-remote" the current call, a
\* SendCallAnswer with an empty callID has built its message for that call.
C19_Witness ==
    \E t \in Threads :
        /\ thr[t].pc = "post"
        /\ thr[t].op = "SendCallAnswer"
        /\ thr[t].arg = ""
        /\ CurrentCallID = "call-remote"
        /\ thr[t].msg.call_id = "call-remote"

\* C15: a frame whose decode failed is never put into decodeCh; a worker
\* waits for the next packet only when the reassembler has no frame ready
\* (so every ready frame is decoded without a further packet); and a worker
\* in its read loop exits only from the track read.
C15_DecodeFailureSkipsOneFrame ==
    /\ [](\A i \in DOMAIN decodeCh : decodeCh[i].ok)
    /\ [](\A w \in DOMAIN rxWorkers :
              rxWorkers[w].pc = "read" => ~SbPoppable(rxWorkers[w].sb))
    /\ [][\A w \in DOMAIN rxWorkers :
            (rxWorkers[w].pc \in {"read", "pop", "decode"}
                    /\ rxWorkers'[w].pc = "exited")
                 => rxWorkers[w].pc = "read"]_vars

\* C16: decodeCh never holds more than 50 frames; a worker with a decoded
\* frame is never blocked: on a queue of 50 frames its frame is dropped and the
\* queue stays as it is, on a shorter queue the frame goes to the end;
\* ReceiveAudio can return exactly when the queue is not empty, and it returns
\* the oldest frame of the queue.
C16_ReceiveQueueNonBlocking ==
    /\ [](Len(decodeCh) <= ChanCap)
    /\ [](\A w \in DOMAIN rxWorkers : rxWorkers[w].pc = "decode" => ENABLED RxDecode(w))
    /\ []((ENABLED ReceiveAudio) <=> decodeCh # <<>>)
    /\ [][/\ (Len(decLog') = Len(decLog) + 1 /\ decLog'[Len(decLog')].ok) =>
                /\ Len(decodeCh) = ChanCap =>
                        decodeCh' = decodeCh /\ rxDropped' = rxDropped + 1
                /\ Len(decodeCh) < ChanCap =>
                        /\ SubSeq(decodeCh', 1, Len(decodeCh)) = decodeCh
                        /\ Len(decodeCh') = Len(decodeCh) + 1
                        /\ decodeCh'[Len(decodeCh')].seq = decLog'[Len(decLog')].seq
                        /\ rxDropped' = rxDropped
          /\ received' # received =>
                /\ Len(received') = Len(received) + 1
                /\ SubSeq(received', 1, Len(received)) = received
                /\ received'[Len(received')].seq = Head(decodeCh).seq
                /\ received'[Len(received')].w = Head(decodeCh).w
                /\ decodeCh' = Tail(decodeCh)]_vars

\* C16 witness: the output queue is full, a decoded frame offered to the full
\* queue was dropped, and ReceiveAudio had returned frames before.
C16_Witness ==
    /\ Len(decodeCh) = ChanCap
    /\ rxDropped > 0
    /\ received # <<>>

\* The sequence numbers in a log of one worker, in order.
SeqsOf(log, w) ==
    LET own == SelectSeq(log, LAMBDA e : e.w = w)
    IN  [i \in DOMAIN own |-> own[i].seq]

\* C18: the decoder of each receive worker gets frames in increasing sequence
\* order, none twice, whatever the order of arrival; a packet older than the
\* release point leaves the reassembler as it is; and after the arrivals
\* 1, 2, 4, 3, with no decode failure, the decoder has received 1, 2, 3, 4 by
\* the time the worker waits for the next packet.
C18_ReassemblerReleasesInOrder ==
    /\ [](\A w \in DOMAIN rxWorkers :
              \A i, j \in DOMAIN SeqsOf(decLog, w) :
                  i < j => SeqsOf(decLog, w)[i] < SeqsOf(decLog, w)[j])
    /\ [](\A w \in DOMAIN rxWorkers :
              (/\ SeqsOf(arrivals, w) = <<1, 2, 4, 3>>
               /\ rxWorkers[w].pc = "read"
               /\ \A i \in DOMAIN decLog : decLog[i].ok)
                 => SeqsOf(decLog, w) = <<1, 2, 3, 4>>)
    /\ [][\A w \in DOMAIN rxWorkers :
            (/\ Len(arrivals') = Len(arrivals) + 1
             /\ arrivals'[Len(arrivals')].w = w
             /\ rxWorkers[w].sb.next # 0
             /\ arrivals'[Len(arrivals')].seq < rxWorkers[w].sb.next)
                => rxWorkers'[w].sb = rxWorkers[w].sb]_vars

\* C18 witness: packets 1, 2, 4, 3 arrived in that order and the decoder has
\* received 1, 2, 3, 4.
C18_Witness ==
    \E w \in DOMAIN rxWorkers :
        /\ SeqsOf(arrivals, w) = <<1, 2, 4, 3>>
        /\ SeqsOf(decLog, w) = <<1, 2, 3, 4>>

\* C20: a signaling receive loop never ends: it stays in the list of running
\* loops, in Sync or in Sleep, a loop in Sync can always take its next step,
\* and a loop whose Sleep has lasted syncRetryGap can go on; after a failed
\* Sync the loop sleeps, and it calls Sync again no earlier than 1 s after the
\* failure. Nothing else is tried again after a failure: a StartCall whose
\* Invite send failed returns the error with no Invite sent, an attempt sends
\* at most one Invite, a failed candidate send is never repeated, and no frame
\* is encoded, decoded or written twice.
C20_OnlySyncLoopRetries ==
    /\ [](\A i \in DOMAIN syncLoops :
              /\ syncLoops[i].pc \in {"sync", "sleep"}
              /\ syncLoops[i].pc = "sync" => ENABLED SyncReturn(i)
              /\ (/\ syncLoops[i].pc = "sleep"
                  /\ now >= syncLoops[i].failedAt + 1
                  /\ syncLoops[i].calls < MaxSyncs) => ENABLED SleepReturn(i))
    /\ [](\A i, j \in Invites : i # j => outbox[i].attempt # outbox[j].attempt)
    /\ [](\A i, j \in DOMAIN encLog : i # j => encLog[i] # encLog[j])
    /\ [](\A i, j \in DOMAIN written : i # j => written[i].seq # written[j].seq)
    /\ [](\A i, j \in DOMAIN decLog :
              i # j => decLog[i].w # decLog[j].w \/ decLog[i].seq # decLog[j].seq)
    /\ [][/\ \A i \in DOMAIN syncLoops :
                /\ i \in DOMAIN syncLoops'
                /\ syncLoops'[i].by = syncLoops[i].by
                /\ syncLoops'[i].fails = syncLoops[i].fails + 1
                        => /\ syncLoops[i].pc = "sync"
                           /\ syncLoops'[i].pc = "sleep"
                           /\ syncLoops'[i].failedAt = now
                /\ (syncLoops[i].pc = "sleep" /\ syncLoops'[i].pc = "sync")
                        => /\ now >= syncLoops[i].failedAt + 1
                           /\ syncLoops'[i].calls = syncLoops[i].calls + 1
          /\ (scPc = "gather" /\ scPc' = "idle" /\ faults' = faults + 1)
                => /\ outbox' = outbox
                   /\ scResult' = "error"
          /\ (candsFired' = candsFired + 1 /\ faults' = faults + 1)
                => outbox' = outbox
          /\ \A c \in Candidates' :
                c \notin Candidates => outbox'[c].candidates = <<candsFired'>>]_vars

\* C20 witness: a loop whose Sync failed has slept and is in Sync again,
\* while the Invite send of its StartCall failed and was not repeated.
C20_Witness ==
    /\ \E i \in DOMAIN syncLoops :
          /\ syncLoops[i].fails >= 1
          /\ syncLoops[i].pc = "sync"
    /\ scPc = "idle"
    /\ scResult = "error"
    /\ gatherState = "complete"
    /\ Invites = {}

\* The call has ended: the transport has reported the closed state.
CallEnded == connState = "closed"

\* C11: once the call has ended, every send worker, every receive worker and
\* every signaling receive loop eventually exits, and from then on nothing is
\* written to the outgoing track and ReceiveAudio returns nothing.
C11_EndOfCallStopsWorkers ==
    /\ CallEnded ~>
          /\ \A w \in DOMAIN workers : workers[w].pc = "exited"
          /\ \A w \in DOMAIN rxWorkers : rxWorkers[w].pc = "exited"
          /\ \A i \in DOMAIN syncLoops : syncLoops[i].pc = "exited"
    /\ [][CallEnded => written' = written /\ received' = received]_vars

\* C21: SendAudio's conversion gives one sample per byte pair (lo, hi), the
\* value lo + 256*hi read as a signed 16-bit number, and drops a trailing odd
\* byte; ReceiveAudio's conversion gives for each sample its low byte and then
\* its high byte; converting bytes to samples and back gives the bytes again
\* (without the odd byte), and samples to bytes and back gives the samples.
C21_PcmLittleEndianRoundTrip ==
    /\ (pcmIn.kind = "bytes" /\ pcmPc # "start") =>
          /\ Len(pcmMid) = Len(pcmIn.val) \div 2
          /\ \A i \in DOMAIN pcmMid :
                /\ pcmMid[i] \in (0 - 32768) .. 32767
                /\ (pcmMid[i] - (pcmIn.val[2*i - 1] + 256 * pcmIn.val[2*i])) % 65536 = 0
    /\ (pcmIn.kind = "bytes" /\ pcmPc = "done") =>
          pcmOut = SubSeq(pcmIn.val, 1, 2 * (Len(pcmIn.val) \div 2))
    /\ (pcmIn.kind = "samples" /\ pcmPc # "start") =>
          /\ Len(pcmMid) = 2 * Len(pcmIn.val)
          /\ \A i \in DOMAIN pcmIn.val :
                /\ pcmMid[2*i - 1] \in 0 .. 255
                /\ pcmMid[2*i] \in 0 .. 255
                /\ (pcmMid[2*i - 1] + 256 * pcmMid[2*i] - pcmIn.val[i]) % 65536 = 0
    /\ (pcmIn.kind = "samples" /\ pcmPc = "done") => pcmOut = pcmIn.val

\* C21 witness: the bytes 0, 128, 1 became the one sample -32768 (the odd
\* byte 1 dropped) and that sample became the bytes 0, 128 again.
C21_Witness ==
    /\ pcmIn = [kind |-> "bytes", val |-> <<0, 128, 1>>]
    /\ pcmPc = "done"
    /\ pcmMid = <<0 - 32768>>
    /\ pcmOut = <<0, 128>>

====
